---- MODULE Spec2Model ----
(***************************************************************************)
(* arch-installer: main() and run() of src/main.rs as a state machine.     *)
(*                                                                         *)
(* Spec      is the program as it executes: main() calls run(), which      *)
(*           resolves its inputs, returns Ok on a dry run and otherwise    *)
(*           reaches the unconditional panic!() of main.rs:155.            *)
(* SpecSteps is the text of run() below that panic (main.rs:157-211),      *)
(*           entered at line 157 with the inputs already resolved.  No     *)
(*           execution of the program gets there; it is checked to tell    *)
(*           what the provisioning steps do as they are written.           *)
(*                                                                         *)
(* SpecDevices, SpecBackend and SpecExec call Device::list, devices and    *)
(*           Device::partitions, the methods of the filesystem backends,   *)
(*           and exec, each on its own, on inputs drawn from bounded sets. *)
(*                                                                         *)
(* One action per statement of run(); every exec() call is one step, so    *)
(* that the order of the external commands is observable in cmds.          *)
(***************************************************************************)
EXTENDS Integers, Sequences, FiniteSets, TLC

VARIABLES
    opt,          \* Opt, the parsed command line (main.rs:14-42)
    filesystem,   \* run()'s local `filesystem`
    clean,        \* run()'s local `clean`
    device,       \* run()'s local `device`
    pc,           \* position in main()/run()
    result,       \* "running", or how run() ended: "ok", "err", "panic"
    error,        \* the message of the Err that run() returned
    exit_status,  \* the status the process exited with
    cmds,         \* the external commands spawned so far, in order
    passed,       \* the precondition checks that have succeeded so far
    efivars,      \* /sys/firmware/efi/efivars: "dir", "file" or "missing"
    mounted,      \* the mount points currently mounted
    pool,         \* whether the pool zroot exists
    zfs_module,   \* whether `modprobe zfs` can load the module
    table,        \* the partition table of the target device
    input,        \* the function under call and its arguments, when a
                  \* function is called on its own
    output,       \* what that call returned
    procs,        \* the processes that exec has spawned: program and arguments
    history,      \* the backend calls completed so far, with their results
    broken        \* whether some tool has failed for reasons of its own

vars == <<opt, filesystem, clean, device, pc, result, error, exit_status,
          cmds, passed, efivars, mounted, pool, zfs_module, table,
          input, output, procs, history, broken>>

sys == <<efivars, mounted, pool, zfs_module, table>>
locals == <<filesystem, clean, device>>
unit == <<input, output, procs, history, broken>>

(***************************************************************************)
(* Process exit statuses.                                                  *)
(***************************************************************************)
ExitOk == 0
ExitError == 1
ExitPanic == 101
StillRunning == 0 - 1

(***************************************************************************)
(* The command lines that the code passes to exec().                       *)
(***************************************************************************)
UmountBoot == <<"umount", "/mnt/boot">>
ZfsUmountAll == <<"zfs", "umount", "-a">>
ZpoolDestroy == <<"zpool", "destroy", "zroot">>
ModprobeZfs == <<"modprobe", "zfs">>
RankMirrors == <<"bash", "-c", "curl | sed | rankmirrors > mirrorlist">>
SetNtp == <<"timedatectl", "set-ntp", "true">>
PartedScript ==
    "mklabel gpt mkpart ESP fat32 1Mib 2GiB set 1 boot on mkpart primary ext4 2GiB 100%"
Parted(d) == <<"parted", "--script", d, "--", PartedScript>>

\* The table that PartedScript writes: one entry per mkpart of the script.
PartedLayout ==
    << [name |-> "ESP", fs |-> "fat32", from |-> "1Mib", to |-> "2GiB", boot |-> TRUE],
       [name |-> "primary", fs |-> "ext4", from |-> "2GiB", to |-> "100%", boot |-> FALSE] >>

\* A table left behind by an earlier installation.
StaleLayout ==
    << [name |-> "old", fs |-> "ext4", from |-> "1MiB", to |-> "100%", boot |-> FALSE] >>

MountPoints == {"/mnt/boot", "/mnt"}
Devices == {"/dev/sda", "/dev/nvme0n1"}

(***************************************************************************)
(* Opt (main.rs:14-42).  filesystem is None, ext4 or zfs (FromStr,         *)
(* main.rs:63-73); of hostname, wifi, username and device only whether     *)
(* the option was passed matters to the control flow of run().             *)
(***************************************************************************)
Opts ==
    [ filesystem : {"None", "ext4", "zfs"},
      clean : BOOLEAN,
      hostname : BOOLEAN,
      wifi : BOOLEAN,
      username : BOOLEAN,
      device : {"None"} \cup Devices,
      dry_run : BOOLEAN ]

(***************************************************************************)
(* exec (main.rs:288-300).  An empty list is the error "missing command";  *)
(* otherwise one process is spawned: a failed spawn is an Err, and any     *)
(* exit status, zero or not, is returned as Ok(output).                    *)
(***************************************************************************)
\* The partitions that exist under /dev, by name, and Device::dev
\* (device.rs:15-17): format!("/dev/{}", self.name).
Partitions == {"sda1", "sda3"}
dev(name) ==
    CASE name = "sda1" -> "/dev/sda1"
      [] name = "sda3" -> "/dev/sda3"
DevicePaths == {dev(n) : n \in Partitions}

\* format!("of={}", path), fat.rs:10 and zfs.rs:31
OfEquals(path) ==
    CASE path = "/dev/sda1" -> "of=/dev/sda1"
      [] path = "/dev/sda3" -> "of=/dev/sda3"

\* The exit statuses a tool can give in the current state of the system.
\* umount fails on a path that is not mounted, zpool destroy on a pool that
\* does not exist, zpool create on one that does, modprobe when the module
\* cannot be loaded, mkfs.vfat on a target that is not a device; beyond
\* that any tool may fail for reasons of its own.
ToolExit(cmd) ==
    CASE cmd[1] = "umount"  -> IF cmd[2] \in mounted THEN {"ok"} ELSE {"nonzero"}
      [] cmd = ZpoolDestroy -> IF pool THEN {"ok"} ELSE {"nonzero"}
      [] cmd = ModprobeZfs  -> IF zfs_module THEN {"ok"} ELSE {"nonzero"}
      [] cmd[1] = "zpool" /\ cmd[2] = "create" ->
              IF pool THEN {"nonzero"} ELSE {"ok", "nonzero"}
      [] cmd[1] = "mkfs.vfat" ->
              IF cmd[Len(cmd)] \in DevicePaths THEN {"ok", "nonzero"} ELSE {"nonzero"}
      [] OTHER              -> {"ok", "nonzero"}

\* The exit status of a tool that works: it fails only for the state of the
\* system that it is run in.
Expected(cmd) ==
    CASE cmd[1] = "umount"  -> IF cmd[2] \in mounted THEN "ok" ELSE "nonzero"
      [] cmd = ZpoolDestroy -> IF pool THEN "ok" ELSE "nonzero"
      [] cmd = ModprobeZfs  -> IF zfs_module THEN "ok" ELSE "nonzero"
      [] cmd[1] = "zpool" /\ cmd[2] = "create" -> IF pool THEN "nonzero" ELSE "ok"
      [] cmd[1] = "mkfs.vfat" ->
              IF cmd[Len(cmd)] \in DevicePaths THEN "ok" ELSE "nonzero"
      [] OTHER              -> "ok"

exec(cmd) ==
    IF cmd = <<>> THEN {"missing"} ELSE {"spawnfail"} \cup ToolExit(cmd)

\* exec(..)? : the Err cases, which `?` propagates.
IsErr(o) == o \in {"missing", "spawnfail"}
\* .status.success()
Success(o) == o = "ok"

\* One call of exec: the outcome o, the command log, and what the tool does
\* to the system when it succeeds.
Call(cmd, o) ==
    /\ o \in exec(cmd)
    /\ cmds' = Append(cmds, [cmd |-> cmd, out |-> o, checked |-> passed])
    /\ mounted' = IF Success(o) /\ cmd[1] = "umount" THEN mounted \ {cmd[2]} ELSE mounted
    /\ pool' = IF Success(o) /\ cmd = ZpoolDestroy THEN FALSE
               ELSE IF Success(o) /\ cmd[1] = "zpool" /\ cmd[2] = "create" THEN TRUE
               ELSE pool
    /\ table' = IF Success(o) /\ cmd[1] = "parted" THEN PartedLayout ELSE table
    /\ UNCHANGED <<efivars, zfs_module>>

\* return Err(msg) / `?` out of run()
Fail(msg) ==
    /\ pc' = "returned"
    /\ result' = "err"
    /\ error' = msg

Goto(l) ==
    /\ pc' = l
    /\ UNCHANGED <<result, error>>

(***************************************************************************)
(* run(), main.rs:100-155: the inputs, the dry-run return and the panic.   *)
(***************************************************************************)

\* main.rs:102-115
RunFilesystem ==
    /\ pc = "filesystem"
    /\ clean' = opt.clean
    /\ IF opt.filesystem # "None"
          THEN filesystem' = opt.filesystem /\ Goto("hostname")
          ELSE \E r \in {"err", "zfs"} :
                  IF r = "err"
                     THEN Fail("prompt") /\ UNCHANGED filesystem
                     ELSE filesystem' = r /\ Goto("hostname")
    /\ UNCHANGED <<unit, opt, device, exit_status, cmds, passed, sys>>

\* An Option that is a prompt when it was not passed (input/confirm,
\* main.rs:214-220): the prompt returns a value or an Err.
Prompted(given, next) ==
    IF given
       THEN Goto(next)
       ELSE \E r \in {"err", "value"} :
               IF r = "err" THEN Fail("prompt") ELSE Goto(next)

\* main.rs:116-121
RunHostname ==
    /\ pc = "hostname"
    /\ Prompted(opt.hostname, "wifi")
    /\ UNCHANGED <<unit, opt, locals, exit_status, cmds, passed, sys>>

\* main.rs:122-127
RunWifi ==
    /\ pc = "wifi"
    /\ Prompted(opt.wifi, "user")
    /\ UNCHANGED <<unit, opt, locals, exit_status, cmds, passed, sys>>

\* main.rs:128-133
RunUser ==
    /\ pc = "user"
    /\ Prompted(opt.username, "device")
    /\ UNCHANGED <<unit, opt, locals, exit_status, cmds, passed, sys>>

\* main.rs:135-148
RunDevice ==
    /\ pc = "device"
    /\ IF opt.device # "None"
          THEN device' = opt.device /\ Goto("dry_run")
          ELSE \E r \in {"err"} \cup Devices :
                  IF r = "err"
                     THEN Fail("devices") /\ UNCHANGED device
                     ELSE device' = r /\ Goto("dry_run")
    /\ UNCHANGED <<unit, opt, filesystem, clean, exit_status, cmds, passed, sys>>

\* RunDryRun without the test of opt.dry_run.
RunDryRun_Ignored ==
    /\ pc = "dry_run"
    /\ Goto("panic")
    /\ UNCHANGED <<unit, opt, locals, exit_status, cmds, passed, sys>>

\* main.rs:150-153
RunDryRun ==
    /\ pc = "dry_run"
    /\ IF opt.dry_run
          THEN pc' = "returned" /\ result' = "ok" /\ UNCHANGED error
          ELSE Goto("panic")
    /\ UNCHANGED <<unit, opt, locals, exit_status, cmds, passed, sys>>

\* RunPanic with the panic removed: control goes on to main.rs:157.
RunPanic_Removed ==
    /\ pc = "panic"
    /\ Goto("clean")
    /\ UNCHANGED <<unit, opt, locals, exit_status, cmds, passed, sys>>

\* main.rs:155: panic!("safety third!") unwinds out of run() and main().
RunPanic ==
    /\ pc = "panic"
    /\ pc' = "exited"
    /\ result' = "panic"
    /\ error' = "safety third!"
    /\ exit_status' = ExitPanic
    /\ UNCHANGED <<unit, opt, locals, cmds, passed, sys>>

\* main.rs:94-97
MainExit ==
    /\ pc = "returned"
    /\ pc' = "exited"
    /\ exit_status' = IF result = "err" THEN ExitError ELSE ExitOk
    /\ UNCHANGED <<unit, opt, locals, result, error, cmds, passed, sys>>

(***************************************************************************)
(* run(), main.rs:157-211 and the functions it calls.                      *)
(***************************************************************************)

\* main.rs:158-160: if clean { cleanup(filesystem)?; }
RunClean ==
    /\ pc = "clean"
    /\ Goto(IF clean THEN "cleanup_umount" ELSE "assert_efi")
    /\ UNCHANGED <<unit, opt, locals, exit_status, cmds, passed, sys>>

\* cleanup, main.rs:281
CleanupUmountBoot ==
    /\ pc = "cleanup_umount"
    /\ \E o \in exec(UmountBoot) :
          /\ Call(UmountBoot, o)
          /\ IF IsErr(o) THEN Fail("spawn") ELSE Goto("cleanup_zfs")
    /\ UNCHANGED <<unit, opt, locals, exit_status, passed>>

\* cleanup, main.rs:282
CleanupZfsUmount ==
    /\ pc = "cleanup_zfs"
    /\ \E o \in exec(ZfsUmountAll) :
          /\ Call(ZfsUmountAll, o)
          /\ IF IsErr(o) THEN Fail("spawn") ELSE Goto("cleanup_zpool")
    /\ UNCHANGED <<unit, opt, locals, exit_status, passed>>

\* cleanup, main.rs:283-285
CleanupZpoolDestroy ==
    /\ pc = "cleanup_zpool"
    /\ \E o \in exec(ZpoolDestroy) :
          /\ Call(ZpoolDestroy, o)
          /\ IF IsErr(o) THEN Fail("spawn") ELSE Goto("assert_efi")
    /\ UNCHANGED <<unit, opt, locals, exit_status, passed>>

\* main.rs:163 and assert_efi, main.rs:270-276
AssertEfi ==
    /\ pc = "assert_efi"
    /\ CASE efivars = "dir" ->
              passed' = passed \cup {"efi"} /\ Goto("modprobe")
         [] efivars = "file" ->
              Fail("system does not appear to be booted in EFI mode") /\ UNCHANGED passed
         [] OTHER ->
              Fail("metadata") /\ UNCHANGED passed
    /\ UNCHANGED <<unit, opt, locals, exit_status, cmds, sys>>

\* main.rs:165-168
RunModprobe ==
    /\ pc = "modprobe"
    /\ \E o \in exec(ModprobeZfs) :
          /\ Call(ModprobeZfs, o)
          /\ IF IsErr(o) THEN Fail("spawn") /\ UNCHANGED passed
             ELSE IF ~Success(o) THEN Fail("zfs module is not loaded") /\ UNCHANGED passed
             ELSE passed' = passed \cup {"deps"} /\ Goto("mirrors")
    /\ UNCHANGED <<unit, opt, locals, exit_status>>

\* main.rs:172-186
RunMirrors ==
    /\ pc = "mirrors"
    /\ IF ~clean
          THEN \E o \in exec(RankMirrors) :
                  /\ Call(RankMirrors, o)
                  /\ IF IsErr(o) THEN Fail("spawn")
                     ELSE IF ~Success(o) THEN Fail("error setting up mirrors")
                     ELSE Goto("ntp")
          ELSE Goto("ntp") /\ UNCHANGED <<cmds, sys>>
    /\ UNCHANGED <<unit, opt, locals, exit_status, passed>>

\* main.rs:189-191
RunNtp ==
    /\ pc = "ntp"
    /\ \E o \in exec(SetNtp) :
          /\ Call(SetNtp, o)
          /\ IF IsErr(o) THEN Fail("spawn")
             ELSE IF ~Success(o) THEN Fail("error setting system time from ntp")
             ELSE Goto("parted")
    /\ UNCHANGED <<unit, opt, locals, exit_status, passed>>

\* main.rs:194-211
RunParted ==
    /\ pc = "parted"
    /\ \E o \in exec(Parted(device)) :
          /\ Call(Parted(device), o)
          /\ IF IsErr(o) THEN Fail("spawn")
             ELSE IF ~Success(o) THEN Fail("error partitioning disk")
             ELSE pc' = "returned" /\ result' = "ok" /\ UNCHANGED error
    /\ UNCHANGED <<unit, opt, locals, exit_status, passed>>

(***************************************************************************)
(* The specifications.                                                     *)
(***************************************************************************)
InitUnit ==
    /\ input = [fn |-> "none"]
    /\ output = [ok |-> TRUE]
    /\ procs = <<>>
    /\ history = <<>>
    /\ broken = FALSE

InitSys ==
    /\ efivars \in {"dir", "file", "missing"}
    /\ mounted \in SUBSET MountPoints
    /\ pool \in BOOLEAN
    /\ zfs_module \in BOOLEAN
    /\ table \in {<<>>, StaleLayout}

Init ==
    /\ opt \in Opts
    /\ filesystem = "unset"
    /\ clean = FALSE
    /\ device = "unset"
    /\ pc = "filesystem"
    /\ result = "running"
    /\ error = ""
    /\ exit_status = StillRunning
    /\ cmds = <<>>
    /\ passed = {}
    /\ InitSys
    /\ InitUnit

Next ==
    \/ RunFilesystem
    \/ RunHostname
    \/ RunWifi
    \/ RunUser
    \/ RunDevice
    \/ RunDryRun
    \/ RunPanic
    \/ MainExit

Spec == Init /\ [][Next]_vars

\* Control at main.rs:157 with the inputs of lines 102-148 resolved.
InitSteps ==
    /\ opt \in {o \in Opts : ~o.dry_run}
    /\ filesystem \in {"ext4", "zfs"}
    /\ opt.filesystem \in {filesystem} \cup (IF filesystem = "zfs" THEN {"None"} ELSE {})
    /\ clean = opt.clean
    /\ device \in Devices
    /\ opt.device \in {"None", device}
    /\ pc = "clean"
    /\ result = "running"
    /\ error = ""
    /\ exit_status = StillRunning
    /\ cmds = <<>>
    /\ passed = {}
    /\ InitSys
    /\ InitUnit

NextSteps ==
    \/ RunClean
    \/ CleanupUmountBoot
    \/ CleanupZfsUmount
    \/ CleanupZpoolDestroy
    \/ AssertEfi
    \/ RunModprobe
    \/ RunMirrors
    \/ RunNtp
    \/ RunParted
    \/ MainExit

SpecSteps == InitSteps /\ [][NextSteps]_vars

TypeOK ==
    /\ opt \in Opts
    /\ filesystem \in {"unset", "ext4", "zfs"}
    /\ clean \in BOOLEAN
    /\ device \in {"unset"} \cup Devices
    /\ result \in {"running", "ok", "err", "panic"}
    /\ exit_status \in {StillRunning, ExitOk, ExitError, ExitPanic}
    /\ passed \subseteq {"efi", "deps"}
    /\ mounted \subseteq MountPoints
    /\ pool \in BOOLEAN

(***************************************************************************)
(* Device::partitions (device.rs:32-60).  Each sibling entry of the        *)
(* device's subsystem directory is read: a missing attribute is skipped,   *)
(* any other read failure and an unparsable index are errors, and a        *)
(* parsed index is bound to `partition` and then dropped: nothing is ever  *)
(* pushed onto `partitions`.                                               *)
(***************************************************************************)
RECURSIVE PartitionsLoop(_, _)
PartitionsLoop(entries, partitions) ==
    IF entries = <<>>
       THEN [ok |-> TRUE, val |-> partitions]
       ELSE LET e == Head(entries) IN
            CASE e.kind = "notfound" -> PartitionsLoop(Tail(entries), partitions)
              [] e.kind = "index"    -> PartitionsLoop(Tail(entries), partitions)
              [] OTHER               -> [ok |-> FALSE, val |-> <<>>]

partitions(readable, entries) ==
    IF ~readable
       THEN [ok |-> FALSE, val |-> <<>>]
       ELSE PartitionsLoop(entries, <<>>)

\* The sibling entries that the system shows for a device with table t: the
\* device itself, which has no partition index, and one entry per partition.
SysEntries(t) ==
    <<[kind |-> "notfound", index |-> 0]>> \o
    [i \in 1..Len(t) |-> [kind |-> "index", index |-> i]]

(***************************************************************************)
(* What the command log shows.                                             *)
(***************************************************************************)
UmountMnt == <<"umount", "/mnt">>

\* A command that was spawned, whatever its exit status.
Executed(e) == ~IsErr(e.out)

\* The storage-mutating commands: cleanup, partitioning, wipe, format.
Mutating(c) ==
    c[1] \in {"umount", "zfs", "zpool", "parted", "wipefs", "dd", "mkfs.vfat", "mkfs.ext4"}

CleanupCommand(c) == c \in {UmountBoot, UmountMnt, ZfsUmountAll, ZpoolDestroy}

CommandLines == [i \in DOMAIN cmds |-> cmds[i].cmd]

\* The position of the first successful run of program p, 0 when there is none.
Pos(p) ==
    LET hits == {i \in DOMAIN cmds : cmds[i].cmd[1] = p /\ Success(cmds[i].out)}
    IN  IF hits = {} THEN 0 ELSE CHOOSE i \in hits : \A j \in hits : i <= j

\* The formatter of the root partition for a backend.
RootFormatter(f) == IF f = "zfs" THEN "zpool" ELSE "mkfs.ext4"

\* The inputs of main.rs:102-148 are resolved: `device` is the last of them.
InputsResolved == device # "unset"

\* What cleanup() of each backend is to run (ext4.rs:10-15, zfs.rs:10-16).
BackendCleanup(f) ==
    IF f = "ext4" THEN <<UmountBoot, UmountMnt>>
                  ELSE <<UmountBoot, ZfsUmountAll, ZpoolDestroy>>

(***************************************************************************)
(* The claims.                                                             *)
(***************************************************************************)

C2_NonDryRunExitsZero ==
    (pc = "exited" /\ ~opt.dry_run /\ InputsResolved
        /\ \A i \in DOMAIN cmds : Success(cmds[i].out))
       => /\ exit_status = ExitOk
          /\ result = "ok"
          /\ passed = {"efi", "deps"}
          /\ 0 < Pos("parted")
          /\ Pos("parted") < Pos("wipefs")
          /\ Pos("wipefs") < Pos("mkfs.vfat")
          /\ Pos("mkfs.vfat") < Pos(RootFormatter(filesystem))

C6_CleanupIffCleanFirst ==
    (pc = "exited" /\ InputsResolved /\ ~opt.dry_run)
       => (opt.clean <=> \E i \in DOMAIN cmds : CleanupCommand(cmds[i].cmd))

C8_RerunCompletesCleanup ==
    (pc = "exited" /\ InputsResolved /\ ~opt.dry_run /\ opt.clean /\ mounted = {})
       => /\ result # "panic"
          /\ \E i \in DOMAIN cmds :
                /\ cmds[i].cmd = BackendCleanup(filesystem)[Len(BackendCleanup(filesystem))]
                /\ Executed(cmds[i])

\* C9: a run with the ZFS backend on a system where the ZFS module cannot be
\* loaded fails with the dependency error, and the partition tool was never
\* invoked.
C9_ZfsModuleMissingFails ==
    (pc = "exited" /\ InputsResolved /\ ~opt.dry_run
        /\ filesystem = "zfs" /\ ~zfs_module /\ efivars = "dir")
       => /\ result = "err"
          /\ error = "zfs module is not loaded"
          /\ \A i \in DOMAIN cmds : cmds[i].cmd[1] # "parted"

StepLabels ==
    {"clean", "cleanup_umount", "cleanup_zfs", "cleanup_zpool",
     "assert_efi", "modprobe", "mirrors", "ntp", "parted"}

\* C12 as stated: a dry run always ends in success, with no command executed.
C12_DryRunAlwaysSucceeds ==
    (pc = "exited" /\ opt.dry_run)
       => (result = "ok" /\ exit_status = ExitOk /\ cmds = <<>>)

\* C12 as amended: a dry run executes no external command and changes
\* nothing of the system, and it ends in success with status zero whenever
\* its inputs resolve (a prompt or the device enumeration can still fail).
C12_DryRunTouchesNothing ==
    /\ [](opt.dry_run =>
            /\ cmds = <<>>
            /\ procs = <<>>
            /\ (pc = "exited" /\ InputsResolved)
                  => (result = "ok" /\ exit_status = ExitOk))
    /\ [][opt.dry_run => UNCHANGED sys]_vars

\* A dry run that had to prompt for the hostname and has ended in success.
C12_Witness ==
    pc = "exited" /\ opt.dry_run /\ ~opt.hostname /\ result = "ok"

\* C20: a run that is not a dry run never reaches the steps from main.rs:157
\* on; once its inputs are resolved it ends in the panic; no external
\* command is executed and the partition tool is never invoked.
C20_NonDryRunPanics ==
    ~opt.dry_run =>
       /\ pc \notin StepLabels
       /\ cmds = <<>>
       /\ procs = <<>>
       /\ \A i \in DOMAIN cmds : cmds[i].cmd[1] # "parted"
       /\ (pc = "exited" /\ InputsResolved)
             => (result = "panic" /\ exit_status = ExitPanic)

\* A run that is not a dry run has ended in the panic.
C20_Witness ==
    pc = "exited" /\ ~opt.dry_run /\ result = "panic" /\ exit_status = ExitPanic

(***************************************************************************)
(* Device::list (device.rs:62-96) and devices (main.rs:233-268), called    *)
(* on a listing of /sys/block.                                             *)
(*                                                                         *)
(* An entry of /sys/block has a name, its `hidden` flag, the size read     *)
(* through /sys/dev/block/<dev>/size, and at most one attribute that       *)
(* cannot be read: `fault` names the attribute that is absent, or is "io"  *)
(* when reading `hidden` fails for another reason.                         *)
(***************************************************************************)
MaxEntries == 2
MaxBytes == 2

\* Device names, in the order of their paths /dev/<name>.
Names == <<"nvme0n1", "sda", "sdb">>
NameRank(n) == CHOOSE i \in DOMAIN Names : Names[i] = n

Faults == {"none", "hidden", "size", "dev", "bytes", "io"}

BlockEntries ==
    [ name : {Names[i] : i \in DOMAIN Names},
      hidden : {"0", "1"},
      bytes : 0..MaxBytes,
      fault : Faults ]

Listings ==
    UNION { {s \in [1..n -> BlockEntries] :
               \A i, j \in 1..n : i # j => s[i].name # s[j].name} :
            n \in 0..MaxEntries }

\* device.rs:94: out.sort_by(|a, b| b.bytes.cmp(&a.bytes))
BytesDescending(a, b) == a.bytes > b.bytes

\* main.rs:266: out.sort_by(|a, b| b.cmp(a)) on (PathBuf, usize) tuples:
\* the path is compared first, the size only between equal paths.
TupleDescending(a, b) ==
    \/ NameRank(a.name) > NameRank(b.name)
    \/ (a.name = b.name /\ a.bytes > b.bytes)

\* The comparator of each of the two sorts.
Before(order, a, b) ==
    IF order = "bytes" THEN BytesDescending(a, b) ELSE TupleDescending(a, b)

\* slice::sort_by, a stable sort: x is placed after every element that
\* orders before it and after the equal elements that precede it.
SortBy(s, order) ==
    LET pos(i) == 1 + Cardinality({j \in DOMAIN s :
                        \/ Before(order, s[j], s[i])
                        \/ (~Before(order, s[i], s[j]) /\ j < i)})
    IN  [k \in DOMAIN s |-> s[CHOOSE i \in DOMAIN s : pos(i) = k]]

\* ListLoop without the test of the hidden flag.
RECURSIVE ListLoop_KeepsHidden(_, _)
ListLoop_KeepsHidden(entries, out) ==
    IF entries = <<>>
       THEN [ok |-> TRUE, val |-> out]
       ELSE LET e == Head(entries) IN
            IF e.fault # "none" THEN [ok |-> FALSE, val |-> <<>>]
            ELSE IF e.bytes < 1 THEN ListLoop_KeepsHidden(Tail(entries), out)
            ELSE ListLoop_KeepsHidden(Tail(entries),
                                      Append(out, [name |-> e.name, bytes |-> e.bytes]))

\* The loop of device.rs:66-92 and of main.rs:237-264: every read is
\* followed by `?`, so an attribute that cannot be read ends the call with
\* an error, whatever the reason.
RECURSIVE ListLoop(_, _)
ListLoop(entries, out) ==
    IF entries = <<>>
       THEN [ok |-> TRUE, val |-> out]
       ELSE LET e == Head(entries) IN
            IF e.fault \in {"hidden", "io"} THEN [ok |-> FALSE, val |-> <<>>]
            ELSE IF e.hidden = "1" THEN ListLoop(Tail(entries), out)
            ELSE IF e.fault \in {"size", "dev", "bytes"} THEN [ok |-> FALSE, val |-> <<>>]
            ELSE IF e.bytes < 1 THEN ListLoop(Tail(entries), out)
            ELSE ListLoop(Tail(entries),
                          Append(out, [name |-> e.name, bytes |-> e.bytes]))

\* Device::list, device.rs:62-96
list(entries) ==
    LET r == ListLoop(entries, <<>>)
    IN  IF r.ok THEN [ok |-> TRUE, val |-> SortBy(r.val, "bytes")] ELSE r

\* devices, main.rs:233-268
devices(entries) ==
    LET r == ListLoop(entries, <<>>)
    IN  IF r.ok THEN [ok |-> TRUE, val |-> SortBy(r.val, "tuple")] ELSE r

ListCall ==
    /\ input.fn = "none"
    /\ \E l \in Listings :
          /\ input' = [fn |-> "list", entries |-> l]
          /\ output' = list(l)
    /\ UNCHANGED <<opt, locals, pc, result, error, exit_status, cmds, passed, sys,
                   procs, history, broken>>

DevicesCall ==
    /\ input.fn = "none"
    /\ \E l \in Listings :
          /\ input' = [fn |-> "devices", entries |-> l]
          /\ output' = devices(l)
    /\ UNCHANGED <<opt, locals, pc, result, error, exit_status, cmds, passed, sys,
                   procs, history, broken>>

(***************************************************************************)
(* Device::partitions (device.rs:32-60) called on the sibling entries of   *)
(* a device: the device itself, which has no partition index, and its      *)
(* partitions, in the order in which the directory is read.                *)
(***************************************************************************)
MaxParts == 3

SiblingEntries ==
    {[kind |-> "notfound", index |-> 0], [kind |-> "ioerr", index |-> 0]}
       \cup {[kind |-> "index", index |-> i] : i \in 1..MaxParts}

SiblingListings ==
    UNION { {s \in [1..n -> SiblingEntries] :
               \A i, j \in 1..n :
                  (i # j /\ s[i].kind = "index" /\ s[j].kind = "index")
                     => s[i].index # s[j].index} :
            n \in 0..(MaxParts + 1) }

PartitionsCall ==
    /\ input.fn = "none"
    /\ \E readable \in BOOLEAN, l \in SiblingListings :
          /\ input' = [fn |-> "partitions", readable |-> readable, entries |-> l]
          /\ output' = partitions(readable, l)
    /\ UNCHANGED <<opt, locals, pc, result, error, exit_status, cmds, passed, sys,
                   procs, history, broken>>

\* A function is called on its own: no run() is in progress.
InitCall ==
    /\ opt = [filesystem |-> "None", clean |-> FALSE, hostname |-> FALSE,
              wifi |-> FALSE, username |-> FALSE, device |-> "None",
              dry_run |-> FALSE]
    /\ filesystem = "unset"
    /\ clean = FALSE
    /\ device = "unset"
    /\ pc = "call"
    /\ result = "running"
    /\ error = ""
    /\ exit_status = StillRunning
    /\ cmds = <<>>
    /\ passed = {}
    /\ efivars = "dir"
    /\ table = <<>>
    /\ InitUnit

InitDevices ==
    /\ InitCall
    /\ mounted = {}
    /\ pool = FALSE
    /\ zfs_module = FALSE

NextDevices ==
    \/ ListCall
    \/ DevicesCall
    \/ PartitionsCall

SpecDevices == InitDevices /\ [][NextDevices]_vars

\* The entries of a listing that are neither hidden nor of size zero.
Visible(l) == {i \in DOMAIN l : l[i].hidden # "1" /\ l[i].bytes > 0}

\* The place of the device named n in the listing.
Discovery(l, n) == CHOOSE i \in DOMAIN l : l[i].name = n

Enumerated == input.fn \in {"list", "devices"} /\ output.ok

\* C14: the devices offered by Device::list and by devices() are in the order
\* of descending byteSize, and devices of equal byteSize are in the order of
\* their discovery.
C14_SortedBySizeStable ==
    Enumerated =>
       \A i, j \in DOMAIN output.val :
          i < j =>
             /\ output.val[i].bytes >= output.val[j].bytes
             /\ (output.val[i].bytes = output.val[j].bytes)
                   => Discovery(input.entries, output.val[i].name)
                         < Discovery(input.entries, output.val[j].name)

\* C15: the enumeration returns exactly the entries that are neither hidden
\* nor of size zero, each once and with its size, so that no hidden device
\* and no device of size zero is returned and every byteSize is positive.
C15_NoHiddenNoZero ==
    Enumerated =>
       /\ \A k \in DOMAIN output.val :
             /\ output.val[k].bytes > 0
             /\ \E i \in Visible(input.entries) :
                   /\ input.entries[i].name = output.val[k].name
                   /\ input.entries[i].bytes = output.val[k].bytes
       /\ Len(output.val) = Cardinality(Visible(input.entries))

\* One visible device and one hidden device: exactly one Device is returned.
C15_Witness ==
    /\ Enumerated
    /\ Len(input.entries) = 2
    /\ \E i \in DOMAIN input.entries : input.entries[i].hidden = "1"
    /\ Len(output.val) = 1

\* C16: an entry with an absent attribute is skipped and the enumeration goes
\* on with the other entries; only another read failure ends it with an error.
C16_AbsentAttributeSkipped ==
    (input.fn \in {"list", "devices"}
        /\ \A i \in DOMAIN input.entries : input.entries[i].fault # "io")
       => /\ output.ok
          /\ {output.val[k].name : k \in DOMAIN output.val}
                = {input.entries[i].name :
                      i \in {v \in Visible(input.entries) :
                                input.entries[v].fault = "none"}}

\* C17: resolve returns one partition for each sibling entry with a readable
\* partition index, in strictly ascending order of index.
C17_OnePartitionPerIndex ==
    (input.fn = "partitions" /\ input.readable
        /\ \A i \in DOMAIN input.entries : input.entries[i].kind # "ioerr")
       => /\ output.ok
          /\ {output.val[k] : k \in DOMAIN output.val}
                = {input.entries[i].index :
                      i \in {e \in DOMAIN input.entries :
                                input.entries[e].kind = "index"}}
          /\ \A i, j \in DOMAIN output.val : i < j => output.val[i] < output.val[j]

(***************************************************************************)
(* The filesystem backends (filesystem/mod.rs, ext4.rs, fat.rs, zfs.rs),   *)
(* called on one backend value and one partition, one call after another.  *)
(* Every command is one step.  `broken` tells whether a tool of the call   *)
(* in progress has failed for reasons of its own.                          *)
(***************************************************************************)
MaxCalls == 3

Backends == {"ext4", "fat32", "zfs"}
Methods == {"init", "cleanup", "assert_dependencies"}

\* Spawn with the whole list, program included, passed as the arguments.
Spawn_WholeListAsArgs(cmd) == [program |-> Head(cmd), args |-> cmd]

\* exec, main.rs:291-297: the first element is the program, the rest are
\* its arguments.
Spawn(cmd) == [program |-> Head(cmd), args |-> Tail(cmd)]

\* zfs.rs:28-34
DdCmd(p) == <<"dd", "if=/dev/urandom", OfEquals(dev(p)), "bs=512", "count=20480">>
\* zfs.rs:44-52
ZpoolCreate(p) == <<"zpool", "create", "-f", "zroot", "-m", "none", dev(p)>>
\* fat.rs:10
MkfsVfat(p) == <<"mkfs.vfat", "-F32", OfEquals(dev(p))>>
\* ext4.rs:18: run_fun!(mkfs.ext4 $partition)
MkfsExt4(p) == <<"mkfs.ext4", "$partition">>

\* Where each method of each backend starts; the methods that a backend
\* does not override are the defaults of the trait (mod.rs:14-20).
Entry(b, f) ==
    CASE b = "zfs" /\ f = "init"                 -> "zfs_init_dd"
      [] b = "zfs" /\ f = "cleanup"              -> "zfs_cleanup_umount"
      [] b = "zfs" /\ f = "assert_dependencies"  -> "zfs_assert"
      [] b = "ext4" /\ f = "init"                -> "ext4_init"
      [] b = "ext4" /\ f = "cleanup"             -> "ext4_cleanup_boot"
      [] b = "fat32" /\ f = "init"               -> "fat_init"
      [] OTHER                                   -> "default"

\* One exec (or run_fun!) of the call in progress.
Step(cmd, o) ==
    /\ Call(cmd, o)
    /\ procs' = IF IsErr(o) THEN procs ELSE Append(procs, Spawn(cmd))
    /\ broken' = (broken \/ o # Expected(cmd))

\* The call in progress returns: Ok when ok, else an Err with message msg
\* that names path.
Return(ok, msg, path) ==
    /\ pc' = "call"
    /\ output' = [ok |-> ok, error |-> msg, path |-> path]
    /\ history' = Append(history,
                         [fn |-> input.fn, backend |-> input.backend,
                          partition |-> input.partition, ok |-> ok,
                          from |-> input.from, to |-> Len(cmds'),
                          worked |-> ~broken'])
    /\ UNCHANGED input

Continue(l) ==
    /\ pc' = l
    /\ UNCHANGED <<input, output, history>>

\* A method is called on the backend value, with the partition for init.
BackendCall ==
    /\ pc = "call"
    /\ Len(history) < MaxCalls
    /\ \E b \in Backends, f \in Methods, p \in Partitions :
          /\ input.fn # "none" => (b = input.backend /\ p = input.partition)
          /\ input' = [fn |-> f, backend |-> b, partition |-> p, from |-> Len(cmds)]
          /\ pc' = Entry(b, f)
    /\ broken' = FALSE
    /\ UNCHANGED <<opt, locals, result, error, exit_status, cmds, passed, sys,
                   output, procs, history>>

\* Filesystem::cleanup and Filesystem::assert_dependencies, mod.rs:14-20
DefaultNoOp ==
    /\ pc = "default"
    /\ UNCHANGED <<cmds, procs, broken>>
    /\ Return(TRUE, "", "")
    /\ UNCHANGED <<opt, locals, result, error, exit_status, passed, sys>>

\* ZfsInitDd without the test of dd's exit status.
ZfsInitDd_Unchecked ==
    /\ pc = "zfs_init_dd"
    /\ \E o \in exec(DdCmd(input.partition)) :
          /\ Step(DdCmd(input.partition), o)
          /\ IF IsErr(o)
                THEN Return(FALSE, "spawn", OfEquals(dev(input.partition)))
                ELSE Continue("zfs_init_zpool")
    /\ UNCHANGED <<opt, locals, result, error, exit_status, passed>>

\* ZFS::init, zfs.rs:28-42
ZfsInitDd ==
    /\ pc = "zfs_init_dd"
    /\ \E o \in exec(DdCmd(input.partition)) :
          /\ Step(DdCmd(input.partition), o)
          /\ IF IsErr(o)
                THEN Return(FALSE, "spawn", OfEquals(dev(input.partition)))
             ELSE IF ~Success(o)
                THEN Return(FALSE, "error using dd to overwrite beginning of",
                            dev(input.partition))
             ELSE Continue("zfs_init_zpool")
    /\ UNCHANGED <<opt, locals, result, error, exit_status, passed>>

\* ZFS::init, zfs.rs:44-63
ZfsInitZpool ==
    /\ pc = "zfs_init_zpool"
    /\ \E o \in exec(ZpoolCreate(input.partition)) :
          /\ Step(ZpoolCreate(input.partition), o)
          /\ IF IsErr(o)
                THEN Return(FALSE, "spawn", dev(input.partition))
             ELSE IF ~Success(o)
                THEN Return(FALSE, "error initializing zpool on", dev(input.partition))
             ELSE Return(TRUE, "", "")
    /\ UNCHANGED <<opt, locals, result, error, exit_status, passed>>

\* ZFS::cleanup, zfs.rs:11: the exit status is not looked at
ZfsCleanupUmount ==
    /\ pc = "zfs_cleanup_umount"
    /\ \E o \in exec(UmountBoot) :
          /\ Step(UmountBoot, o)
          /\ IF IsErr(o) THEN Return(FALSE, "spawn", "") ELSE Continue("zfs_cleanup_zfs")
    /\ UNCHANGED <<opt, locals, result, error, exit_status, passed>>

\* ZFS::cleanup, zfs.rs:12
ZfsCleanupZfs ==
    /\ pc = "zfs_cleanup_zfs"
    /\ \E o \in exec(ZfsUmountAll) :
          /\ Step(ZfsUmountAll, o)
          /\ IF IsErr(o) THEN Return(FALSE, "spawn", "") ELSE Continue("zfs_cleanup_zpool")
    /\ UNCHANGED <<opt, locals, result, error, exit_status, passed>>

\* ZFS::cleanup, zfs.rs:13-15
ZfsCleanupZpool ==
    /\ pc = "zfs_cleanup_zpool"
    /\ \E o \in exec(ZpoolDestroy) :
          /\ Step(ZpoolDestroy, o)
          /\ IF IsErr(o) THEN Return(FALSE, "spawn", "") ELSE Return(TRUE, "", "")
    /\ UNCHANGED <<opt, locals, result, error, exit_status, passed>>

\* ZFS::assert_dependencies, zfs.rs:18-25: run_fun! is an Err when the
\* command cannot be spawned or exits non-zero.
ZfsAssertDependencies ==
    /\ pc = "zfs_assert"
    /\ \E o \in exec(ModprobeZfs) :
          /\ Step(ModprobeZfs, o)
          /\ IF ~Success(o)
                THEN Return(FALSE, "zfs module is not loaded", "")
                ELSE Return(TRUE, "", "")
    /\ UNCHANGED <<opt, locals, result, error, exit_status, passed>>

\* Ext4::init, ext4.rs:17-21
Ext4Init ==
    /\ pc = "ext4_init"
    /\ \E o \in exec(MkfsExt4(input.partition)) :
          /\ Step(MkfsExt4(input.partition), o)
          /\ IF ~Success(o) THEN Return(FALSE, "run_fun", "") ELSE Return(TRUE, "", "")
    /\ UNCHANGED <<opt, locals, result, error, exit_status, passed>>

\* Ext4::cleanup, ext4.rs:11: run_fun!(umount /mnt/boot)?
Ext4CleanupBoot ==
    /\ pc = "ext4_cleanup_boot"
    /\ \E o \in exec(UmountBoot) :
          /\ Step(UmountBoot, o)
          /\ IF ~Success(o) THEN Return(FALSE, "run_fun", "") ELSE Continue("ext4_cleanup_mnt")
    /\ UNCHANGED <<opt, locals, result, error, exit_status, passed>>

\* Ext4::cleanup, ext4.rs:12-14: run_fun!(umount /mnt)?
Ext4CleanupMnt ==
    /\ pc = "ext4_cleanup_mnt"
    /\ \E o \in exec(UmountMnt) :
          /\ Step(UmountMnt, o)
          /\ IF ~Success(o) THEN Return(FALSE, "run_fun", "") ELSE Return(TRUE, "", "")
    /\ UNCHANGED <<opt, locals, result, error, exit_status, passed>>

\* FAT32::init, fat.rs:9-21
Fat32Init ==
    /\ pc = "fat_init"
    /\ \E o \in exec(MkfsVfat(input.partition)) :
          /\ Step(MkfsVfat(input.partition), o)
          /\ IF IsErr(o)
                THEN Return(FALSE, "spawn", OfEquals(dev(input.partition)))
             ELSE IF ~Success(o)
                THEN Return(FALSE, "error formatting filesystem as FAT32",
                            dev(input.partition))
             ELSE Return(TRUE, "", "")
    /\ UNCHANGED <<opt, locals, result, error, exit_status, passed>>

InitBackend ==
    /\ InitCall
    /\ mounted \in SUBSET MountPoints
    /\ pool \in BOOLEAN
    /\ zfs_module \in BOOLEAN

NextBackend ==
    \/ BackendCall
    \/ DefaultNoOp
    \/ ZfsInitDd
    \/ ZfsInitZpool
    \/ ZfsCleanupUmount
    \/ ZfsCleanupZfs
    \/ ZfsCleanupZpool
    \/ ZfsAssertDependencies
    \/ Ext4Init
    \/ Ext4CleanupBoot
    \/ Ext4CleanupMnt
    \/ Fat32Init

SpecBackend == InitBackend /\ [][NextBackend]_vars

\* The commands of a completed backend call, in order.
CmdsOf(h) == [k \in 1..(h.to - h.from) |-> cmds[h.from + k]]

Args(c) == {c[k] : k \in 2..Len(c)}

\* C11: after an init(p) that succeeded, cleanup() and then init(p) on the
\* same backend succeed when the tools work.
C11_InitCleanupInit ==
    \A i \in DOMAIN history :
       (/\ i + 2 <= Len(history)
        /\ history[i].fn = "init" /\ history[i].ok
        /\ history[i + 1].fn = "cleanup" /\ history[i + 1].worked
        /\ history[i + 2].fn = "init" /\ history[i + 2].worked)
          => (history[i + 1].ok /\ history[i + 2].ok)

\* C18: FAT32.init(p) runs the FAT32 formatter once, in 32-bit FAT mode, on
\* the device path of p, and is an error exactly when the formatter did not
\* succeed.
C18_Fat32TargetIsDevicePath ==
    \A i \in DOMAIN history :
       (history[i].backend = "fat32" /\ history[i].fn = "init")
          => LET cs == CmdsOf(history[i]) IN
             /\ Len(cs) = 1
             /\ cs[1].cmd[1] = "mkfs.vfat"
             /\ "-F32" \in Args(cs[1].cmd)
             /\ cs[1].cmd[Len(cs[1].cmd)] = dev(history[i].partition)
             /\ (history[i].ok <=> Success(cs[1].out))

\* C19: ZFS.init(p) first overwrites the start of p with dd (20480 blocks of
\* 512 bytes of random data); the pool zroot is created on the device path
\* of p, with no mountpoint, only right after that dd has succeeded; when dd
\* cannot be spawned or exits non-zero, init is an error and no pool
\* creation is attempted.
C19_DdBeforeZpoolCreate ==
    /\ \A i \in DOMAIN cmds :
          (cmds[i].cmd[1] = "zpool" /\ cmds[i].cmd[2] = "create")
             => /\ i > 1
                /\ cmds[i - 1].cmd[1] = "dd"
                /\ Success(cmds[i - 1].out)
                /\ OfEquals(cmds[i].cmd[Len(cmds[i].cmd)]) \in Args(cmds[i - 1].cmd)
                /\ cmds[i].cmd[Len(cmds[i].cmd)] \in DevicePaths
                /\ {"zroot", "-m", "none"} \subseteq Args(cmds[i].cmd)
    /\ \A i \in DOMAIN history :
          (history[i].backend = "zfs" /\ history[i].fn = "init")
             => LET cs == CmdsOf(history[i]) IN
                /\ Len(cs) >= 1
                /\ cs[1].cmd[1] = "dd"
                /\ {"if=/dev/urandom", OfEquals(dev(history[i].partition)),
                    "bs=512", "count=20480"} \subseteq Args(cs[1].cmd)
                /\ ~Success(cs[1].out) => (Len(cs) = 1 /\ ~history[i].ok)
                /\ Success(cs[1].out) =>
                      /\ Len(cs) = 2
                      /\ cs[2].cmd[1] = "zpool" /\ cs[2].cmd[2] = "create"
                      /\ cs[2].cmd[Len(cs[2].cmd)] = dev(history[i].partition)
                      /\ (history[i].ok <=> Success(cs[2].out))

\* A ZFS.init whose dd failed, followed by a ZFS.init that created the pool.
C19_Witness ==
    /\ Len(history) >= 2
    /\ history[1].backend = "zfs" /\ history[1].fn = "init" /\ ~history[1].ok
    /\ Len(CmdsOf(history[1])) = 1 /\ CmdsOf(history[1])[1].out = "nonzero"
    /\ history[2].fn = "init" /\ history[2].ok
    /\ pool

(***************************************************************************)
(* exec (main.rs:288-300) called on its own, as test_exec does             *)
(* (tests.rs:3-14).  The output of a process is a sequence of characters.  *)
(***************************************************************************)
ExecInputs == {<<>>, <<"echo">>, <<"echo", "true">>, <<"false">>}

Chars(str) ==
    CASE str = "true" -> <<"t", "r", "u", "e">>
      [] OTHER        -> <<>>

\* What the program writes to its standard output: echo writes its
\* argument and a newline.
Stdout(cmd) ==
    IF Head(cmd) # "echo" THEN <<>>
    ELSE IF Len(cmd) = 1 THEN <<"\n">>
    ELSE Chars(cmd[2]) \o <<"\n">>

Whitespace == {" ", "\n", "\t"}

\* str::trim
RECURSIVE TrimStart(_)
TrimStart(s) ==
    IF s # <<>> /\ Head(s) \in Whitespace THEN TrimStart(Tail(s)) ELSE s

RECURSIVE TrimEnd(_)
TrimEnd(s) ==
    IF s # <<>> /\ s[Len(s)] \in Whitespace
       THEN TrimEnd(SubSeq(s, 1, Len(s) - 1))
       ELSE s

Trim(s) == TrimEnd(TrimStart(s))

ExecCall ==
    /\ pc = "call"
    /\ Len(history) < MaxCalls
    /\ \E cmd \in ExecInputs : \E o \in exec(cmd) :
          /\ Call(cmd, o)
          /\ input' = [fn |-> "exec", cmd |-> cmd, from |-> Len(procs)]
          /\ procs' = IF IsErr(o) THEN procs ELSE Append(procs, Spawn(cmd))
          /\ output' = [ok |-> ~IsErr(o),
                        error |-> IF o = "missing" THEN "missing command"
                                  ELSE IF o = "spawnfail" THEN "spawn" ELSE "",
                        status |-> o,
                        stdout |-> IF IsErr(o) THEN <<>> ELSE Stdout(cmd)]
          /\ history' = Append(history, [fn |-> "exec", ok |-> ~IsErr(o)])
    /\ UNCHANGED <<opt, locals, pc, result, error, exit_status, passed, broken>>

NextExec == ExecCall

SpecExec == InitDevices /\ [][NextExec]_vars

====
